---- MODULE Spec2Model ----
(***************************************************************************)
(* Model of the Solana counter program (src/src/lib.rs): the instruction   *)
(* dispatcher process_instruction, the two handlers                        *)
(* process_initialize_counter and process_increment_counter, the Borsh     *)
(* encodings of CounterInstruction and CounterAccount, and the part of the *)
(* hosting runtime the handlers call into (the system program's            *)
(* create_account reached through invoke, the rent sysvar, and the         *)
(* transaction-level commit/rollback of send_transaction).                 *)
(*                                                                         *)
(* A u64 is kept as four 16-bit limbs, least significant first, so that    *)
(* 64-bit arithmetic keeps its width; account data and instruction         *)
(* payloads are byte sequences, and the little-endian encodings convert    *)
(* between the two.                                                        *)
(***************************************************************************)
EXTENDS Integers, Sequences, FiniteSets, TLC

VARIABLES accounts,   \* the ledger: key -> [lamports, owner, data]
          pre,        \* the ledger as it was before the latest step
          last,       \* what the latest step did (its inputs and outcome)
          initV,      \* key -> value the counter was initialized with, <<>> if never
          nInc,       \* key -> successful increments since its initialization
          airdrops    \* airdrops made so far

vars == <<accounts, pre, last, initV, nInc, airdrops>>

---------------------------------------------------------------------------
(* Bounds of the model *)

MaxAccounts == 3      \* longest account list passed to an instruction
MaxIncrements == 1    \* successful increments per account
MaxAirdrops == 1      \* airdrops over a run

---------------------------------------------------------------------------
(* Keys and programs *)

ProgramId == "counter_program"
SystemProgram == "system_program"
OtherProgram == "other_program"
NativeLoader == "native_loader"

Payer == "payer"
UserKeys == {Payer, "counter"}
Keys == UserKeys \cup {SystemProgram}

AirdropAmount == 1000000

---------------------------------------------------------------------------
(* u64 arithmetic on 16-bit limbs *)

LimbBase == 2 ^ 16
NumLimbs == 64 \div 16

U64Zero == [k \in 1..NumLimbs |-> 0]
U64Max == [k \in 1..NumLimbs |-> LimbBase - 1]
U64FromNat(n) ==
    [k \in 1..NumLimbs |->
        IF k = 1 THEN n % LimbBase ELSE IF k = 2 THEN n \div LimbBase ELSE 0]

RECURSIVE Carry(_, _, _)
Carry(a, b, k) ==
    IF k = 0 THEN 0 ELSE (a[k] + b[k] + Carry(a, b, k - 1)) \div LimbBase

wrapping_add(a, b) ==
    [k \in 1..NumLimbs |-> (a[k] + b[k] + Carry(a, b, k - 1)) % LimbBase]

checked_add(a, b) ==
    IF Carry(a, b, NumLimbs) > 0
    THEN [some |-> FALSE, v |-> U64Zero]
    ELSE [some |-> TRUE, v |-> wrapping_add(a, b)]

---------------------------------------------------------------------------
(* Borsh encodings *)

\* u64::to_le_bytes: byte 2k-1 is the low half of limb k, byte 2k its high half
to_le_bytes(v) ==
    [i \in 1..8 |->
        IF i % 2 = 1 THEN v[(i + 1) \div 2] % 256 ELSE v[i \div 2] \div 256]

\* faulty variant: big-endian byte order
to_be_bytes(v) == [i \in 1..8 |-> to_le_bytes(v)[9 - i]]

\* u64::from_le_bytes
from_le_bytes(b) == [k \in 1..NumLimbs |-> b[2 * k - 1] + 256 * b[2 * k]]

\* CounterAccount::try_from_slice: one u64, and no byte may be left over
CounterAccount_try_from_slice(data) ==
    IF Len(data) < 8 THEN [ok |-> FALSE, count |-> U64Zero]
    ELSE IF Len(data) > 8 THEN [ok |-> FALSE, count |-> U64Zero]
    ELSE [ok |-> TRUE, count |-> from_le_bytes(SubSeq(data, 1, 8))]

\* faulty variant: the count written big-endian
CounterAccount_serialize_be(count, data) ==
    IF Len(data) < 8 THEN [ok |-> FALSE, data |-> data]
    ELSE [ok |-> TRUE, data |-> to_be_bytes(count) \o SubSeq(data, 9, Len(data))]

\* faulty variant: the count prepended to the data instead of overwriting it
CounterAccount_serialize_append(count, data) ==
    [ok |-> TRUE, data |-> to_le_bytes(count) \o data]

\* CounterAccount::serialize into a mutable byte slice: writes the 8 bytes at
\* the front of the slice, fails when the slice is shorter than that
CounterAccount_serialize(count, data) ==
    IF Len(data) < 8 THEN [ok |-> FALSE, data |-> data]
    ELSE [ok |-> TRUE, data |-> to_le_bytes(count) \o SubSeq(data, 9, Len(data))]

NoInstruction == [ok |-> FALSE, tag |-> "none", initial_value |-> U64Zero]

\* faulty variant: trailing bytes and unknown variant indexes accepted
CounterInstruction_try_from_slice_lenient(d) ==
    IF Len(d) = 0 THEN NoInstruction
    ELSE IF d[1] = 0
    THEN IF Len(d) < 9 THEN NoInstruction
         ELSE [ok |-> TRUE, tag |-> "InitializeCounter",
               initial_value |-> from_le_bytes(SubSeq(d, 2, 9))]
    ELSE [ok |-> TRUE, tag |-> "IncrementCounter", initial_value |-> U64Zero]

\* CounterInstruction::try_from_slice: a u8 variant index (0 = InitializeCounter
\* followed by a u64, 1 = IncrementCounter), and no byte may be left over
CounterInstruction_try_from_slice(d) ==
    IF Len(d) = 0 THEN NoInstruction
    ELSE IF d[1] = 0
    THEN IF Len(d) # 9 THEN NoInstruction
         ELSE [ok |-> TRUE, tag |-> "InitializeCounter",
               initial_value |-> from_le_bytes(SubSeq(d, 2, 9))]
    ELSE IF d[1] = 1
    THEN IF Len(d) # 1 THEN NoInstruction
         ELSE [ok |-> TRUE, tag |-> "IncrementCounter", initial_value |-> U64Zero]
    ELSE NoInstruction

\* borsh::to_vec of the two instructions (as the clients build them)
EncodeInitialize(v) == <<0>> \o to_le_bytes(v)
EncodeIncrement == <<1>>

---------------------------------------------------------------------------
(* The hosting runtime: rent, the system program, cross-program invocation *)

\* faulty variant: the per-account overhead left out
minimum_balance_data_only(space) == space * 3480 * 2

\* Rent::minimum_balance with the default rent parameters: 128 bytes of
\* per-account overhead, 3480 lamports per byte-year, 2 years for exemption
minimum_balance(space) == (128 + space) * 3480 * 2

Zeroes(n) == [i \in 1..n |-> 0]

NoAccount == [lamports |-> 0, owner |-> SystemProgram, data |-> <<>>]

CpiOk(accts) == [res |-> "Ok", accts |-> accts]
CpiErr(e, accts) == [res |-> e, accts |-> accts]

\* system program transfer: the source signs, carries no data and holds the sum
system_transfer(accts, signers, from, to, lamports) ==
    IF from \notin signers THEN CpiErr("MissingRequiredSignature", accts)
    ELSE IF Len(accts[from].data) > 0 THEN CpiErr("InvalidArgument", accts)
    ELSE IF lamports > accts[from].lamports THEN CpiErr("InsufficientFunds", accts)
    ELSE LET debited == [accts EXCEPT ![from].lamports = @ - lamports]
         IN CpiOk([debited EXCEPT ![to].lamports = @ + lamports])

\* system program create_account, up to the funding: the new account must hold
\* no lamports, no data and be system-owned; it is allocated (zero-filled) and
\* assigned to its owner
system_create_account_unfunded(accts, signers, from, to, lamports, space, owner) ==
    IF accts[to].lamports > 0 THEN CpiErr("AccountAlreadyInUse", accts)
    ELSE IF to \notin signers THEN CpiErr("MissingRequiredSignature", accts)
    ELSE IF Len(accts[to].data) > 0 \/ accts[to].owner # SystemProgram
    THEN CpiErr("AccountAlreadyInUse", accts)
    ELSE CpiOk([accts EXCEPT ![to].data = Zeroes(space), ![to].owner = owner])

\* system program create_account: allocation and assignment, then the funding
\* by the payer
system_create_account(accts, signers, from, to, lamports, space, owner) ==
    LET allocated == system_create_account_unfunded(accts, signers, from, to,
                                                    lamports, space, owner)
    IN IF allocated.res # "Ok" THEN allocated
       ELSE system_transfer(allocated.accts, signers, from, to, lamports)

Range(s) == {s[i] : i \in 1..Len(s)}

\* invoke of the create_account instruction: the caller must hold the signer
\* privilege of both accounts, and the system program must be among the
\* accounts of the running instruction
invoke_create_account(accts, signers, passed, from, to, lamports, space, owner) ==
    IF ~({from, to} \subseteq signers) THEN CpiErr("PrivilegeEscalation", accts)
    ELSE IF SystemProgram \notin passed THEN CpiErr("MissingAccount", accts)
    ELSE system_create_account(accts, signers, from, to, lamports, space, owner)

---------------------------------------------------------------------------
(* The program *)

\* A handler's outcome: its result, the accounts as it leaves them, the data
\* writes it made (key and the owner at the moment of the write), and the
\* accounts whose data it borrowed
Outcome(res, accts, writes, borrowed) ==
    [res |-> res, accts |-> accts, writes |-> writes, borrowed |-> borrowed]

account_space == 8

process_initialize_counter(program_id, accts, account_list, signers, initial_value) ==
    IF Len(account_list) < 3
    THEN Outcome("NotEnoughAccountKeys", accts, {}, {})
    ELSE
      LET counter_account == account_list[1]
          payer_account == account_list[2]
          required_lamports == minimum_balance(account_space)
          cpi == invoke_create_account(accts, signers, Range(account_list),
                     payer_account, counter_account, required_lamports,
                     account_space, program_id)
      IN IF cpi.res # "Ok" THEN Outcome(cpi.res, cpi.accts, {}, {})
         ELSE
           LET written == CounterAccount_serialize(initial_value,
                              cpi.accts[counter_account].data)
               wrote == [key |-> counter_account,
                         owner |-> cpi.accts[counter_account].owner]
           IN IF ~written.ok
              THEN Outcome("BorshIoError", cpi.accts, {}, {counter_account})
              ELSE Outcome("Ok",
                     [cpi.accts EXCEPT ![counter_account].data = written.data],
                     {wrote}, {counter_account})

\* faulty variant: no ownership test
owner_unchecked(owner, program_id) == TRUE

\* the ownership test of the increment handler
owner_matches(owner, program_id) == owner = program_id

\* faulty variant: wrapping addition
increment_count_unchecked(count) ==
    [some |-> TRUE, v |-> wrapping_add(count, U64FromNat(1))]

\* faulty variant: the sum is not stored back
increment_count_stale(count) ==
    [some |-> checked_add(count, U64FromNat(1)).some, v |-> count]

\* counter_data.count.checked_add(1)
increment_count(count) == checked_add(count, U64FromNat(1))

process_increment_counter(program_id, accts, account_list) ==
    IF Len(account_list) < 1
    THEN Outcome("NotEnoughAccountKeys", accts, {}, {})
    ELSE
      LET counter_account == account_list[1]
      IN IF ~owner_matches(accts[counter_account].owner, program_id)
         THEN Outcome("IncorrectProgramId", accts, {}, {})
         ELSE
           LET data == accts[counter_account].data
               counter_data == CounterAccount_try_from_slice(data)
               sum == increment_count(counter_data.count)
               written == CounterAccount_serialize(sum.v, data)
               wrote == [key |-> counter_account,
                         owner |-> accts[counter_account].owner]
           IN IF ~counter_data.ok
              THEN Outcome("BorshIoError", accts, {}, {counter_account})
              ELSE IF ~sum.some
              THEN Outcome("InvalidAccountData", accts, {}, {counter_account})
              ELSE IF ~written.ok
              THEN Outcome("BorshIoError", accts, {}, {counter_account})
              ELSE Outcome("Ok",
                     [accts EXCEPT ![counter_account].data = written.data],
                     {wrote}, {counter_account})

\* The dispatcher; "called" names the handler it routed to
process_instruction(program_id, accts, account_list, signers, instruction_data) ==
    LET instruction == CounterInstruction_try_from_slice(instruction_data)
    IN IF ~instruction.ok
       THEN [called |-> "none",
             out |-> Outcome("InvalidInstructionData", accts, {}, {})]
       ELSE IF instruction.tag = "InitializeCounter"
       THEN [called |-> "process_initialize_counter",
             out |-> process_initialize_counter(program_id, accts, account_list,
                         signers, instruction.initial_value)]
       ELSE [called |-> "process_increment_counter",
             out |-> process_increment_counter(program_id, accts, account_list)]

---------------------------------------------------------------------------
(* Inputs *)

InitValues ==
    {U64FromNat(42), [U64Max EXCEPT ![1] = LimbBase - 2], U64Max}

MalformedPayloads ==
    {<<>>, <<2>>, <<1, 0>>, SubSeq(EncodeInitialize(U64FromNat(42)), 1, 8)}

Payloads ==
    {EncodeInitialize(v) : v \in InitValues} \cup {EncodeIncrement}
        \cup MalformedPayloads

AccountLists == UNION {[1..n -> Keys] : n \in 0..MaxAccounts}

ExternalSpaces == {8, 16}

\* The keys of an instruction's accounts that sign the transaction: every user
\* key it names (as in the test's transactions), or none of them
SignerSets(account_list) == {UserKeys \cap Range(account_list), {}}

---------------------------------------------------------------------------
(* State machine *)

NoStep ==
    [kind |-> "none", res |-> "Ok", called |-> "none", data |-> <<>>,
     counter |-> "none", payer |-> "none", writes |-> {}, borrowed |-> {}]

\* LiteSVM::new and add_program_from_file: an empty ledger holding the
\* programs; no counter has been initialized
Init ==
    /\ accounts = [k \in Keys |->
                     IF k = SystemProgram
                     THEN [lamports |-> 1, owner |-> NativeLoader, data |-> <<>>]
                     ELSE NoAccount]
    /\ pre = accounts
    /\ last = NoStep
    /\ initV = [k \in Keys |-> <<>>]
    /\ nInc = [k \in Keys |-> 0]
    /\ airdrops = 0

\* faulty variant: effects kept whatever the result
commit_always(accts, out) == out.accts

\* The runtime's transaction atomicity: the effects of an instruction are kept
\* only when it returns Ok
commit(accts, out) == IF out.res = "Ok" THEN out.accts ELSE accts

\* A transaction of one instruction addressed to the counter program
SendTransaction(account_list, signers, instruction_data) ==
    \E run \in {process_instruction(ProgramId, accounts, account_list, signers,
                                   instruction_data)} :
    LET out == run.out
        ok == out.res = "Ok"
        target == IF Len(account_list) >= 1 THEN account_list[1] ELSE "none"
    IN /\ (ok /\ run.called = "process_increment_counter")
             => nInc[target] < MaxIncrements
       /\ accounts' = commit(accounts, out)
       /\ pre' = accounts
       /\ last' = [kind |-> "send", res |-> out.res, called |-> run.called,
                   data |-> instruction_data,
                   counter |-> IF run.called = "none" THEN "none" ELSE target,
                   payer |-> IF ok /\ run.called = "process_initialize_counter"
                             THEN account_list[2] ELSE "none",
                   writes |-> out.writes, borrowed |-> out.borrowed]
       /\ initV' = IF ok /\ run.called = "process_initialize_counter"
                   THEN [initV EXCEPT ![target] =
                            CHOOSE v \in InitValues :
                                EncodeInitialize(v) = instruction_data]
                   ELSE initV
       /\ nInc' = IF ok /\ run.called = "process_increment_counter"
                  THEN [nInc EXCEPT ![target] = @ + 1]
                  ELSE nInc
       /\ UNCHANGED airdrops

\* svm.airdrop: lamports credited to an address (the payer's, see Next)
Airdrop(k) ==
    /\ airdrops < MaxAirdrops
    /\ airdrops' = airdrops + 1
    /\ accounts' = [accounts EXCEPT ![k].lamports = @ + AirdropAmount]
    /\ pre' = accounts
    /\ last' = [NoStep EXCEPT !.kind = "airdrop", !.counter = k]
    /\ UNCHANGED <<initV, nInc>>

\* Another client creates an account directly through the system program,
\* assigned to any program and funded from a wallet of its own
ExternalCreateAccount(to, space, owner) ==
    LET r == system_create_account_unfunded(accounts, {to}, to, to,
                                            minimum_balance(space), space, owner)
    IN /\ r.res = "Ok"
       /\ accounts' = [r.accts EXCEPT ![to].lamports = minimum_balance(space)]
       /\ pre' = accounts
       /\ last' = [NoStep EXCEPT !.kind = "create", !.counter = to]
       /\ UNCHANGED <<initV, nInc, airdrops>>

Next ==
    \/ \E account_list \in AccountLists :
         \E signers \in SignerSets(account_list) :
           \E instruction_data \in Payloads :
             SendTransaction(account_list, signers, instruction_data)
    \/ Airdrop(Payer)
    \/ \E to \in UserKeys, space \in ExternalSpaces,
          owner \in {ProgramId, OtherProgram} :
         ExternalCreateAccount(to, space, owner)

Spec == Init /\ [][Next]_vars

---------------------------------------------------------------------------
(* Vocabulary of the properties *)

Sent == last.kind = "send"
SentInitialize == Sent /\ last.called = "process_initialize_counter"
SentIncrement == Sent /\ last.called = "process_increment_counter"
Succeeded == last.res = "Ok"
HasTarget == last.counter \in Keys

\* what a client reads back from an account (the test's read of the count)
HoldsCount(accts, k, v) ==
    CounterAccount_try_from_slice(accts[k].data) = [ok |-> TRUE, count |-> v]

\* V + N computed limb by limb, N a small natural
RECURSIVE CarryIn(_, _, _)
CarryIn(v, n, k) ==
    IF k = 1 THEN n ELSE (v[k - 1] + CarryIn(v, n, k - 1)) \div LimbBase
PlusNat(v, n) == [k \in 1..NumLimbs |-> (v[k] + CarryIn(v, n, k)) % LimbBase]
FitsU64(v, n) == CarryIn(v, n, NumLimbs + 1) = 0

\* a <= b on u64 values, compared from the most significant limb down
RECURSIVE U64LeqFrom(_, _, _)
U64LeqFrom(a, b, k) ==
    IF k = 0 THEN TRUE
    ELSE IF a[k] < b[k] THEN TRUE
    ELSE IF a[k] > b[k] THEN FALSE
    ELSE U64LeqFrom(a, b, k - 1)

U64Leq(a, b) == U64LeqFrom(a, b, NumLimbs)

AllOnes == [i \in 1..8 |-> 255]

WellFormedPayload(d) == (Len(d) = 9 /\ d[1] = 0) \/ (Len(d) = 1 /\ d[1] = 1)

RECURSIVE TotalLamports(_, _)
TotalLamports(accts, S) ==
    IF S = {} THEN 0
    ELSE LET k == CHOOSE x \in S : TRUE
         IN accts[k].lamports + TotalLamports(accts, S \ {k})

---------------------------------------------------------------------------
(* Properties *)

\* C1: a successful InitializeCounter{initial_value: V} leaves the counter
\* account's stored count equal to V: reading the account back yields V, for
\* the V the client encoded in the instruction.
C1_InitializeStoresValue ==
    (SentInitialize /\ Succeeded) =>
        \E v \in InitValues :
            /\ last.data = EncodeInitialize(v)
            /\ pre[last.counter] = NoAccount
            /\ HoldsCount(accounts, last.counter, v)

C1_Witness ==
    /\ SentInitialize /\ Succeeded
    /\ last.data = EncodeInitialize(U64FromNat(42))
    /\ HoldsCount(accounts, last.counter, U64FromNat(42))

C3_IncrementAtMaxFails ==
    /\ (SentIncrement /\ HasTarget /\ pre[last.counter].owner = ProgramId
            /\ pre[last.counter].data = AllOnes)
        => /\ last.res = "InvalidAccountData"
           /\ accounts[last.counter].data = AllOnes
    /\ (SentIncrement /\ Succeeded)
        => /\ accounts[last.counter].data # pre[last.counter].data
           /\ U64Leq(from_le_bytes(pre[last.counter].data),
                     from_le_bytes(accounts[last.counter].data))

C3_Witness ==
    /\ SentIncrement /\ HasTarget
    /\ pre[last.counter].owner = ProgramId
    /\ pre[last.counter].data = AllOnes
    /\ last.res = "InvalidAccountData"

\* C4: IncrementCounter on an account whose owner is not the program fails
\* with IncorrectProgramId before the account's data is borrowed, read or
\* written, and the account is unchanged.
C4_IncrementForeignOwnerFails ==
    (SentIncrement /\ HasTarget /\ pre[last.counter].owner # ProgramId)
        => /\ last.res = "IncorrectProgramId"
           /\ last.borrowed = {}
           /\ last.writes = {}
           /\ accounts[last.counter] = pre[last.counter]

C4_Witness ==
    /\ SentIncrement /\ HasTarget
    /\ pre[last.counter].owner = OtherProgram
    /\ Len(pre[last.counter].data) = 8
    /\ last.res = "IncorrectProgramId"

\* C5: a payload that is not exactly the encoding of InitializeCounter (tag 0
\* and 8 bytes) or of IncrementCounter (tag 1 alone) fails with
\* InvalidInstructionData, reaches no handler and changes no account.
C5_MalformedPayloadRejected ==
    (Sent /\ ~WellFormedPayload(last.data))
        => /\ last.res = "InvalidInstructionData"
           /\ last.called = "none"
           /\ last.writes = {} /\ last.borrowed = {}
           /\ accounts = pre

C5_Witness ==
    /\ Sent /\ Len(last.data) = 2 /\ last.data[1] = 1
    /\ last.res = "InvalidInstructionData"
    /\ \E k \in Keys : accounts[k].owner = ProgramId

C7_InitializeCreatesFundedAccount ==
    /\ (SentInitialize /\ Succeeded)
        => /\ pre[last.counter] = NoAccount
           /\ Len(accounts[last.counter].data) = 8
           /\ accounts[last.counter].owner = ProgramId
           /\ accounts[last.counter].lamports = 946560
           /\ last.payer \in Keys \ {last.counter}
           /\ accounts[last.payer].lamports = pre[last.payer].lamports - 946560
           /\ TotalLamports(accounts, Keys) = TotalLamports(pre, Keys)
           /\ \A k \in Keys \ {last.counter, last.payer} : accounts[k] = pre[k]
    /\ (SentInitialize /\ Succeeded) => pre[last.payer].lamports >= 946560
    /\ (SentInitialize /\ ~Succeeded) => accounts = pre

C7_Witness ==
    /\ SentInitialize /\ Succeeded
    /\ last.payer = Payer
    /\ pre[Payer].lamports = AirdropAmount
    /\ accounts[Payer].lamports = AirdropAmount - 946560
    /\ accounts[last.counter].lamports = 946560

\* C8: every write of a count the handlers make is made to an account owned
\* by the program at the moment of the write, and an invocation changes the
\* data only of accounts the program owns afterwards, which before were the
\* program's or did not exist.
C8_WritesOnlyToOwnedAccounts ==
    Sent =>
        /\ \A w \in last.writes : w.owner = ProgramId
        /\ \A k \in Keys :
             accounts[k].data # pre[k].data =>
                 /\ accounts[k].owner = ProgramId
                 /\ pre[k].owner = ProgramId \/ pre[k] = NoAccount
                 /\ \E w \in last.writes : w.key = k

C8_Witness ==
    /\ SentIncrement /\ Succeeded
    /\ last.writes = {[key |-> last.counter, owner |-> ProgramId]}
    /\ accounts[last.counter].data # pre[last.counter].data
    /\ \E k \in Keys : accounts[k].owner = OtherProgram

\* C9: a successful IncrementCounter changes only the count of the first
\* account passed: its owner, balance and data size, and every other account,
\* stay as they were.
C9_IncrementFrame ==
    (SentIncrement /\ Succeeded) =>
        /\ HasTarget
        /\ accounts[last.counter].owner = pre[last.counter].owner
        /\ accounts[last.counter].lamports = pre[last.counter].lamports
        /\ Len(accounts[last.counter].data) = Len(pre[last.counter].data)
        /\ \A k \in Keys \ {last.counter} : accounts[k] = pre[k]

C9_Witness ==
    /\ SentIncrement /\ Succeeded
    /\ initV[last.counter] = <<>>
    /\ HoldsCount(accounts, last.counter, U64FromNat(1))

\* C10: an InitializeCounter targeting an already initialized counter fails
\* (when the request reaches the system program, as AccountAlreadyInUse) and
\* does not reset the count; and no step ever lowers the count of an
\* initialized counter.
C10_NoReinitializeAndMonotone ==
    /\ (SentInitialize /\ HasTarget /\ initV[last.counter] # <<>>
            /\ pre[last.counter].owner = ProgramId)
        => /\ last.res \in {"NotEnoughAccountKeys", "PrivilegeEscalation",
                            "MissingAccount", "AccountAlreadyInUse"}
           /\ accounts[last.counter] = pre[last.counter]
    /\ \A k \in Keys :
         (initV[k] # <<>> /\ pre[k].owner = ProgramId /\ Len(pre[k].data) = 8)
             => /\ accounts[k].owner = ProgramId
                /\ Len(accounts[k].data) = 8
                /\ U64Leq(from_le_bytes(pre[k].data),
                          from_le_bytes(accounts[k].data))

C10_Witness ==
    /\ SentInitialize /\ HasTarget
    /\ initV[last.counter] = U64FromNat(42)
    /\ nInc[last.counter] = 1
    /\ last.res = "AccountAlreadyInUse"
    /\ HoldsCount(accounts, last.counter, U64FromNat(43))

====
